---- MODULE Spec2Model ----
(***************************************************************************)
(* Inventory management system: product variants (Electronics, Grocery,   *)
(* Clothing), the Inventory store and its JSON persistence, driven by the  *)
(* menu handlers of InventoryCLI.                                          *)
(*                                                                         *)
(* Representation                                                          *)
(*   - a Python str is a sequence of one-character strings;                *)
(*   - a Python/JSON scalar is a tagged record [t, s, n]: t is the Python  *)
(*     type ("str", "int", "float", "null"), s the characters of a str,    *)
(*     n the number.  A float is held in HALF units (n = 3 is 1.5), an     *)
(*     int in whole units, so float() and int() are real conversions;      *)
(*   - a Python dict with str keys is a TLA+ record (a function from the   *)
(*     keys to tagged values);                                             *)
(*   - a date is a record [year, month, day];                              *)
(*   - the result of a call that may raise is a record with an err field   *)
(*     holding "none" or the name of the exception class.                  *)
(***************************************************************************)
EXTENDS Integers, Sequences, FiniteSets, TLC

VARIABLES inventory, today, file, cli, last

vars == <<inventory, today, file, cli, last>>

----------------------------------------------------------------------------
(* Bounds of the model                                                     *)

\* restock is not offered once the stock has reached MaxQty
MaxQty == 3

\* number of midnights that may pass while the program runs
MaxTicks == 1

----------------------------------------------------------------------------
(* Python scalars                                                          *)

JStr(chars) == [t |-> "str", s |-> chars, n |-> 0]

JInt(i) == [t |-> "int", s |-> <<>>, n |-> i]

JFloat(halves) == [t |-> "float", s |-> <<>>, n |-> halves]

JNull == [t |-> "null", s |-> <<>>, n |-> 0]

Ok(v) == [err |-> "none", val |-> v]

Raise(kind) == [err |-> kind, val |-> 0]

DigitChar == <<"0", "1", "2", "3", "4", "5", "6", "7", "8", "9">>

IsDigit(c) == \E i \in 1..10 : DigitChar[i] = c

DigitVal(c) == (CHOOSE i \in 1..10 : DigitChar[i] = c) - 1

AllDigits(chars) == Len(chars) > 0 /\ \A i \in 1..Len(chars) : IsDigit(chars[i])

RECURSIVE DigitsVal(_)
DigitsVal(chars) ==
    IF Len(chars) = 0 THEN 0
    ELSE 10 * DigitsVal(SubSeq(chars, 1, Len(chars) - 1)) + DigitVal(chars[Len(chars)])

\* the integer literals int() and float() accept, over the alphabet of digits and "-"
IsIntLiteral(chars) ==
    \/ AllDigits(chars)
    \/ Len(chars) > 1 /\ chars[1] = "-" /\ AllDigits(Tail(chars))

IntLiteralVal(chars) ==
    IF chars[1] = "-" THEN 0 - DigitsVal(Tail(chars)) ELSE DigitsVal(chars)

\* truncation of a number of halves toward zero, in whole units
TruncHalves(h) == IF h >= 0 THEN h \div 2 ELSE 0 - ((0 - h) \div 2)

\* float(x), in halves
PyFloat(x) ==
    CASE x.t = "float" -> Ok(x.n)
      [] x.t = "int" -> Ok(2 * x.n)
      [] x.t = "str" -> IF IsIntLiteral(x.s) THEN Ok(2 * IntLiteralVal(x.s))
                        ELSE Raise("ValueError")
      [] OTHER -> Raise("TypeError")

\* int(x), in whole units
PyInt(x) ==
    CASE x.t = "int" -> Ok(x.n)
      [] x.t = "float" -> Ok(TruncHalves(x.n))
      [] x.t = "str" -> IF IsIntLiteral(x.s) THEN Ok(IntLiteralVal(x.s))
                        ELSE Raise("ValueError")
      [] OTHER -> Raise("TypeError")

----------------------------------------------------------------------------
(* Dates                                                                   *)

Date(y, m, d) == [year |-> y, month |-> m, day |-> d]

IsLeap(y) == (y % 4 = 0 /\ y % 100 # 0) \/ y % 400 = 0

DaysInMonth(y, m) ==
    CASE m \in {4, 6, 9, 11} -> 30
      [] m = 2 -> IF IsLeap(y) THEN 29 ELSE 28
      [] OTHER -> 31

\* date.__gt__: a is strictly after b
DateAfter(a, b) ==
    \/ a.year > b.year
    \/ a.year = b.year /\ a.month > b.month
    \/ a.year = b.year /\ a.month = b.month /\ a.day > b.day

\* the calendar day after d (the clock read by datetime.now() at the next midnight)
NextDay(d) ==
    IF d.day < DaysInMonth(d.year, d.month) THEN Date(d.year, d.month, d.day + 1)
    ELSE IF d.month < 12 THEN Date(d.year, d.month + 1, 1)
    ELSE Date(d.year + 1, 1, 1)

\* the character of the decimal digit k mod 10
DigitOf(k) == DigitChar[(k % 10) + 1]

\* date.isoformat(): YYYY-MM-DD, zero padded
isoformat(d) ==
    << DigitOf(d.year \div 1000), DigitOf(d.year \div 100),
       DigitOf(d.year \div 10), DigitOf(d.year), "-",
       DigitOf(d.month \div 10), DigitOf(d.month), "-",
       DigitOf(d.day \div 10), DigitOf(d.day) >>

IsIsoShape(chars) ==
    /\ Len(chars) = 10
    /\ chars[5] = "-" /\ chars[8] = "-"
    /\ \A i \in {1, 2, 3, 4, 6, 7, 9, 10} : IsDigit(chars[i])

\* dateutil parse(expiry_date).date() on the strings of the model: a
\* YYYY-MM-DD string naming a calendar day parses to that day; the other
\* strings of the model (words, the empty string, impossible days) raise
\* ParserError, a ValueError; a value that is not a str raises TypeError.
parse(x) ==
    IF x.t # "str" THEN Raise("TypeError")
    ELSE IF ~IsIsoShape(x.s) THEN Raise("ParserError")
    ELSE LET y == DigitsVal(SubSeq(x.s, 1, 4))
             m == DigitsVal(SubSeq(x.s, 6, 7))
             d == DigitsVal(SubSeq(x.s, 9, 10))
         IN  IF y >= 1 /\ m \in 1..12 /\ d >= 1 /\ d <= DaysInMonth(y, m)
             THEN Ok(Date(y, m, d))
             ELSE Raise("ParserError")

----------------------------------------------------------------------------
(* Exceptions                                                              *)

\* the classes of exceptions/custom_exceptions.py, all subclasses of InventoryError
InventoryErrors ==
    {"InsufficientStockError", "DuplicateProductError", "ProductNotFoundError",
     "InvalidProductDataError", "InvalidProductTypeError"}

\* isinstance(e, cls) for the exception classes of the model
IsInstance(e, cls) ==
    \/ e = cls
    \/ cls = "InventoryError" /\ e \in InventoryErrors
    \/ cls = "ValueError" /\ e \in {"ParserError", "JSONDecodeError"}
    \/ cls = "Exception" /\ e # "none"

\* an except clause naming the classes of handled catches exception e
Catches(handled, e) == \E cls \in handled : IsInstance(e, cls)

----------------------------------------------------------------------------
(* Product and its variants: a product is a record of its attributes plus  *)
(* type, the name of its class                                             *)

ElectronicsName == <<"E", "l", "e", "c", "t", "r", "o", "n", "i", "c", "s">>

GroceryName == <<"G", "r", "o", "c", "e", "r", "y">>

ClothingName == <<"C", "l", "o", "t", "h", "i", "n", "g">>

\* Inventory.PRODUCT_TYPES: type tag -> class
PRODUCT_TYPES ==
    (JStr(ElectronicsName) :> "Electronics") @@ (JStr(GroceryName) :> "Grocery")
        @@ (JStr(ClothingName) :> "Clothing")

\* cls.__name__, as characters
ClassName(cls) ==
    CASE cls = "Electronics" -> ElectronicsName
      [] cls = "Grocery" -> GroceryName
      [] cls = "Clothing" -> ClothingName

CommonParams == {"product_id", "name", "price", "quantity_in_stock"}

\* the keyword parameters of each variant constructor
Params(cls) ==
    CASE cls = "Electronics" -> CommonParams \cup {"warranty_years", "brand"}
      [] cls = "Grocery" -> CommonParams \cup {"expiry_date"}
      [] cls = "Clothing" -> CommonParams \cup {"size", "material"}

\* Product.__init__: stores id and name as given, price through float(),
\* quantity through int(); no range check
ProductInit(data) ==
    LET p == PyFloat(data.price)
        q == PyInt(data.quantity_in_stock)
    IN  IF p.err # "none" THEN Raise(p.err)
        ELSE IF q.err # "none" THEN Raise(q.err)
        ELSE Ok([product_id |-> data.product_id, name |-> data.name,
                 price |-> p.val, quantity_in_stock |-> q.val])

\* a variant constructor after super().__init__ gave base: the variant's own
\* fields are converted and stored only if the base constructor returned
Extend(base, fields) ==
    IF base.err # "none" THEN base
    ELSE IF fields.err # "none" THEN Raise(fields.err)
    ELSE Ok(base.val @@ fields.val)

\* the attributes a converted value w yields
Converted(w, fields) == IF w.err # "none" THEN Raise(w.err) ELSE Ok(fields)

Electronics(data) ==
    Extend(ProductInit(data),
           Converted(PyInt(data.warranty_years),
                     [type |-> "Electronics",
                      warranty_years |-> PyInt(data.warranty_years).val,
                      brand |-> data.brand]))

Grocery(data) ==
    Extend(ProductInit(data),
           Converted(parse(data.expiry_date),
                     [type |-> "Grocery", expiry_date |-> parse(data.expiry_date).val]))

Clothing(data) ==
    Extend(ProductInit(data),
           Ok([type |-> "Clothing", size |-> data.size, material |-> data.material]))

\* product_class(**product_data): the call binds the keys of the dict to the
\* constructor's parameters (TypeError when they differ), then constructs
Construct(cls, data) ==
    IF DOMAIN data # Params(cls) THEN Raise("TypeError")
    ELSE CASE cls = "Electronics" -> Electronics(data)
           [] cls = "Grocery" -> Grocery(data)
           [] cls = "Clothing" -> Clothing(data)

\* the result of a Product method: the exception raised (with the attributes
\* of InsufficientStockError), the value returned and the product afterwards
MethodResult(e, id, req, avail, r, p) ==
    [err |-> e, e_pid |-> id, e_req |-> req, e_avail |-> avail, ret |-> r, product |-> p]

\* Product.price setter
set_price(p, new_price) ==
    IF new_price < 0 THEN MethodResult("ValueError", JNull, 0, 0, 0, p)
    ELSE MethodResult("none", JNull, 0, 0, 0, [p EXCEPT !.price = new_price])

\* Product.restock without the check of the sign
restock_unchecked(p, amount) ==
    MethodResult("none", JNull, 0, 0, 0, [p EXCEPT !.quantity_in_stock = @ + amount])

\* Product.restock assigning the amount instead of adding it
restock_replacing(p, amount) ==
    IF amount < 0 THEN MethodResult("ValueError", JNull, 0, 0, 0, p)
    ELSE MethodResult("none", JNull, 0, 0, 0, [p EXCEPT !.quantity_in_stock = amount])

\* Product.restock
restock(p, amount) ==
    IF amount < 0 THEN MethodResult("ValueError", JNull, 0, 0, 0, p)
    ELSE MethodResult("none", JNull, 0, 0, 0,
                      [p EXCEPT !.quantity_in_stock = @ + amount])

\* Product.sell with the sale total computed from the stock left
sell_total_of_rest(p, quantity) ==
    IF quantity < 0 THEN MethodResult("ValueError", JNull, 0, 0, 0, p)
    ELSE IF quantity > p.quantity_in_stock
    THEN MethodResult("InsufficientStockError", p.product_id, quantity,
                      p.quantity_in_stock, 0, p)
    ELSE MethodResult("none", JNull, 0, 0, p.price * (p.quantity_in_stock - quantity),
                      [p EXCEPT !.quantity_in_stock = @ - quantity])

\* Product.sell
sell(p, quantity) ==
    IF quantity < 0 THEN MethodResult("ValueError", JNull, 0, 0, 0, p)
    ELSE IF quantity > p.quantity_in_stock
    THEN MethodResult("InsufficientStockError", p.product_id, quantity,
                      p.quantity_in_stock, 0, p)
    ELSE MethodResult("none", JNull, 0, 0, p.price * quantity,
                      [p EXCEPT !.quantity_in_stock = @ - quantity])

\* Product.get_total_value returning the price of one unit
get_total_value_of_unit(p) == p.price

\* Product.get_total_value
get_total_value(p) == p.price * p.quantity_in_stock

\* Grocery.is_expired comparing with >=
is_expired_on_the_day(p, now) == ~DateAfter(p.expiry_date, now)

\* Grocery.is_expired, with now the date read from the clock
is_expired(p, now) == DateAfter(now, p.expiry_date)

----------------------------------------------------------------------------
(* Inventory: _products is a dict, modelled as the sequence of its values  *)
(* in insertion order; the key of a value is its product_id                *)

Keys(products) == {products[i].product_id : i \in 1..Len(products)}

\* the position of key id
IndexOf(products, id) == CHOOSE i \in 1..Len(products) : products[i].product_id = id

\* del _products[id]
Delete(products, id) ==
    LET k == IndexOf(products, id)
    IN  SubSeq(products, 1, k - 1) \o SubSeq(products, k + 1, Len(products))

\* the result of an Inventory method: the exception raised, the value
\* returned and _products afterwards
InvResult(e, id, req, avail, r, products) ==
    [err |-> e, e_pid |-> id, e_req |-> req, e_avail |-> avail, ret |-> r,
     products |-> products]

\* Inventory.add_product storing over the key without the membership test
add_product_overwrite(products, product) ==
    IF product.product_id \in Keys(products)
    THEN InvResult("none", JNull, 0, 0, 0,
                   [products EXCEPT ![IndexOf(products, product.product_id)] = product])
    ELSE InvResult("none", JNull, 0, 0, 0, Append(products, product))

\* Inventory.add_product
add_product(products, product) ==
    IF product.product_id \in Keys(products)
    THEN InvResult("DuplicateProductError", product.product_id, 0, 0, 0, products)
    ELSE InvResult("none", JNull, 0, 0, 0, Append(products, product))

\* Inventory.remove_product by _products.pop(id, None): silent on an absent id
remove_product_quiet(products, id) ==
    IF id \notin Keys(products) THEN InvResult("none", JNull, 0, 0, 0, products)
    ELSE InvResult("none", JNull, 0, 0, 0, Delete(products, id))

\* Inventory.remove_product
remove_product(products, id) ==
    IF id \notin Keys(products)
    THEN InvResult("ProductNotFoundError", id, 0, 0, 0, products)
    ELSE InvResult("none", JNull, 0, 0, 0, Delete(products, id))

\* Inventory.get_product
get_product(products, id) ==
    IF id \notin Keys(products) THEN [err |-> "ProductNotFoundError", e_pid |-> id]
    ELSE [err |-> "none", e_pid |-> JNull, index |-> IndexOf(products, id)]

\* a store that drops a product once a method leaves it with no stock
ThroughDroppingSoldOut(products, k, r) ==
    IF r.err = "none" /\ r.product.quantity_in_stock = 0
    THEN InvResult(r.err, r.e_pid, r.e_req, r.e_avail, r.ret,
                   SubSeq(products, 1, k - 1) \o SubSeq(products, k + 1, Len(products)))
    ELSE InvResult(r.err, r.e_pid, r.e_req, r.e_avail, r.ret,
                   [products EXCEPT ![k] = r.product])

\* a method of the product returned by get_product has run with result r:
\* the store sees the change because the handle is shared
Through(products, k, r) ==
    InvResult(r.err, r.e_pid, r.e_req, r.e_avail, r.ret,
              [products EXCEPT ![k] = r.product])

\* Inventory.sell_product
sell_product(products, id, quantity) ==
    LET g == get_product(products, id)
    IN  IF g.err # "none" THEN InvResult(g.err, g.e_pid, 0, 0, 0, products)
        ELSE Through(products, g.index, sell(products[g.index], quantity))

\* Inventory.restock_product
restock_product(products, id, quantity) ==
    LET g == get_product(products, id)
    IN  IF g.err # "none" THEN InvResult(g.err, g.e_pid, 0, 0, 0, products)
        ELSE Through(products, g.index, restock(products[g.index], quantity))

\* inventory.get_product(id).price = new_price
assign_price(products, id, new_price) ==
    LET g == get_product(products, id)
    IN  IF g.err # "none" THEN InvResult(g.err, g.e_pid, 0, 0, 0, products)
        ELSE Through(products, g.index, set_price(products[g.index], new_price))

RECURSIVE SumValues(_)
SumValues(products) ==
    IF Len(products) = 0 THEN 0
    ELSE get_total_value(Head(products)) + SumValues(Tail(products))

\* Inventory.total_inventory_value
total_inventory_value(products) == SumValues(products)

\* the test of the sweep's loop body
IsExpiredGrocery(p, now) == p.type = "Grocery" /\ is_expired(p, now)

\* Inventory.remove_expired_products: walks a snapshot of the items in
\* insertion order, deleting the expired groceries and collecting their ids
RECURSIVE Sweep(_, _)
Sweep(products, now) ==
    IF Len(products) = 0 THEN [kept |-> <<>>, expired_ids |-> <<>>]
    ELSE LET rest == Sweep(Tail(products), now)
             p == Head(products)
         IN  IF IsExpiredGrocery(p, now)
             THEN [kept |-> rest.kept, expired_ids |-> <<p.product_id>> \o rest.expired_ids]
             ELSE [kept |-> <<p>> \o rest.kept, expired_ids |-> rest.expired_ids]

remove_expired_products(products, now) == Sweep(products, now)

----------------------------------------------------------------------------
(* Persistence.  A file is [kind, top, has_products, products]:            *)
(*   kind "absent"  no such file, open() raises FileNotFoundError          *)
(*   kind "text"    a file that is not JSON                                *)
(*   kind "json"    a JSON document; top is "dict" for an object and       *)
(*                  "other" for any other value; has_products tells        *)
(*                  whether the object has the key products, whose value   *)
(*                  is the list products.                                  *)
(* A list element is a JSON scalar [t, s, n] or an object [t |-> "dict",   *)
(* d |-> record of JSON scalars].  JSON scalars carry the token class      *)
(* ("string", "integer", "real", "null") where Python values carry the     *)
(* type; a real is held in halves like a float.                            *)

AbsentFile == [kind |-> "absent", top |-> "other", has_products |-> FALSE, products |-> <<>>]

TextFile == [kind |-> "text", top |-> "other", has_products |-> FALSE, products |-> <<>>]

JsonFile(top, has, list) == [kind |-> "json", top |-> top, has_products |-> has, products |-> list]

\* json.dump of a scalar: the token written for a Python value
JsonEncode(v) ==
    [v EXCEPT !.t = CASE v.t = "str" -> "string"
                      [] v.t = "int" -> "integer"
                      [] v.t = "float" -> "real"
                      [] OTHER -> "null"]

\* json.load of a scalar: the Python value of a token
JsonDecode(j) ==
    [j EXCEPT !.t = CASE j.t = "string" -> "str"
                      [] j.t = "integer" -> "int"
                      [] j.t = "real" -> "float"
                      [] OTHER -> "null"]

\* Product.to_dict writing the price in whole units, as int(price)
BaseDictWholePrice(p) ==
    [product_id |-> p.product_id, name |-> p.name, price |-> JInt(TruncHalves(p.price)),
     quantity_in_stock |-> JInt(p.quantity_in_stock), type |-> JStr(ClassName(p.type))]

\* Product.to_dict, the part shared by the variants
BaseDict(p) ==
    [product_id |-> p.product_id, name |-> p.name, price |-> JFloat(p.price),
     quantity_in_stock |-> JInt(p.quantity_in_stock), type |-> JStr(ClassName(p.type))]

\* Electronics.to_dict, Grocery.to_dict, Clothing.to_dict
to_dict(p) ==
    CASE p.type = "Electronics" ->
            BaseDict(p) @@ [warranty_years |-> JInt(p.warranty_years), brand |-> p.brand]
      [] p.type = "Grocery" ->
            BaseDict(p) @@ [expiry_date |-> JStr(isoformat(p.expiry_date))]
      [] p.type = "Clothing" ->
            BaseDict(p) @@ [size |-> p.size, material |-> p.material]

\* json.dump of one dict of scalars
DumpDict(d) == [t |-> "dict", d |-> [k \in DOMAIN d |-> JsonEncode(d[k])]]

\* Inventory.save_to_file: the document written
save_to_file(products) ==
    JsonFile("dict", TRUE, [i \in 1..Len(products) |-> DumpDict(to_dict(products[i]))])

\* an exception with its message, a list of message parts
Exc(kind, parts) == [err |-> kind, msg |-> parts]

\* load_from_file, the handler of the try around construction and add
InnerHandler(e) ==
    IF Catches({"Exception"}, e.err)
    THEN Exc("InvalidProductDataError", <<"Error creating product">> \o e.msg)
    ELSE e

\* load_from_file with an outer try that handles ValueError only
OuterHandlerOfValueErrors(e) ==
    IF Catches({"JSONDecodeError"}, e.err)
    THEN Exc("InvalidProductDataError", <<"Invalid JSON file">>)
    ELSE IF Catches({"ValueError"}, e.err)
    THEN Exc("InvalidProductDataError", <<"Error loading inventory">> \o e.msg)
    ELSE e

\* load_from_file, the handlers of the outer try
OuterHandler(e) ==
    IF Catches({"JSONDecodeError"}, e.err)
    THEN Exc("InvalidProductDataError", <<"Invalid JSON file">>)
    ELSE IF Catches({"Exception"}, e.err)
    THEN Exc("InvalidProductDataError", <<"Error loading inventory">> \o e.msg)
    ELSE e

\* product_data.pop('type', None)
PopType(d) == IF "type" \in DOMAIN d THEN JsonDecode(d.type) ELSE JNull

\* product_data after the pop, as Python values
WithoutType(d) == [k \in DOMAIN d \ {"type"} |-> JsonDecode(d[k])]

\* load_from_file, the end of the inner try: a is what add_product did
Added(products, a) ==
    IF a.err # "none"
    THEN [exc |-> InnerHandler(Exc(a.err, <<a.err>>)), products |-> products]
    ELSE [exc |-> Exc("none", <<>>), products |-> a.products]

\* load_from_file, the inner try: c is what product_class(**product_data) did
AddConstructed(products, c) ==
    IF c.err # "none"
    THEN [exc |-> InnerHandler(Exc(c.err, <<c.err>>)), products |-> products]
    ELSE Added(products, add_product(products, c.val))

\* load_from_file, the loop body after the pop
LoadDict(products, product_type, product_data) ==
    IF product_type \notin DOMAIN PRODUCT_TYPES
    THEN [exc |-> Exc("InvalidProductDataError", <<"Unknown product type">>),
          products |-> products]
    ELSE AddConstructed(products, Construct(PRODUCT_TYPES[product_type], product_data))

\* load_from_file, one pass of the loop body on list element e: the
\* exception leaving the inner try (or none) and the store afterwards
LoadEntry(products, e) ==
    IF e.t # "dict" THEN [exc |-> Exc("AttributeError", <<"pop">>), products |-> products]
    ELSE LoadDict(products, PopType(e.d), WithoutType(e.d))

RECURSIVE LoadEntries(_, _)

\* load_from_file, the loop after one pass ended with r: stops at the first exception
LoadRest(r, rest) == IF r.exc.err # "none" THEN r ELSE LoadEntries(r.products, rest)

\* load_from_file, the loop
LoadEntries(products, list) ==
    IF Len(list) = 0 THEN [exc |-> Exc("none", <<>>), products |-> products]
    ELSE LoadRest(LoadEntry(products, Head(list)), Tail(list))

\* load_from_file, the body of the outer try
LoadBody(f) ==
    CASE f.kind = "absent" -> [exc |-> Exc("FileNotFoundError", <<"open">>), products |-> <<>>]
      [] f.kind = "text" -> [exc |-> Exc("JSONDecodeError", <<"json">>), products |-> <<>>]
      [] f.top # "dict" -> [exc |-> Exc("AttributeError", <<"get">>), products |-> <<>>]
      [] ~f.has_products -> [exc |-> Exc("none", <<>>), products |-> <<>>]
      [] OTHER -> LoadEntries(<<>>, f.products)

\* the call as its caller sees it: the exception raised, or the inventory returned
Returned(e, products) == [err |-> e.err, msg |-> e.msg, products |-> products]

\* load_from_file, the outer try around a body that ended with body
Outer(body) ==
    IF body.exc.err = "none" THEN Returned(body.exc, body.products)
    ELSE Returned(OuterHandler(body.exc), <<>>)

\* Inventory.load_from_file: the exception raised (or none) and the
\* inventory returned, built from an empty one
load_from_file(f) == Outer(LoadBody(f))

----------------------------------------------------------------------------
(* The program: InventoryCLI holding one Inventory, one file on disk, the  *)
(* clock.  last records the latest call into the core: the operation, its  *)
(* id and numeric argument, the exception it raised (err, with the         *)
(* attributes of the exception) and what it returned.                      *)

Call(op, pid, arg, e, e_pid, e_req, e_avail, r, removed, msg) ==
    [op |-> op, pid |-> pid, arg |-> arg, err |-> e, e_pid |-> e_pid, e_req |-> e_req,
     e_avail |-> e_avail, ret |-> r, removed |-> removed, msg |-> msg]

\* the record of a call that ended with Inventory result r
CallOf(op, pid, arg, r) ==
    Call(op, pid, arg, r.err, r.e_pid, r.e_req, r.e_avail, r.ret, <<>>, <<>>)

\* the menu loop after a handler whose except clause names handled: an
\* exception it does not catch leaves run() and ends the process
AfterHandler(handled, e) ==
    IF e = "none" \/ Catches(handled, e) THEN "running" ELSE "crashed"

StartDay == Date(2024, 12, 31)

RECURSIVE DayAfter(_, _)
DayAfter(d, k) == IF k = 0 THEN d ELSE DayAfter(NextDay(d), k - 1)

P1 == JStr(<<"P", "1">>)

P2 == JStr(<<"P", "2">>)

ProductIds == {P1, P2}

\* the field dicts get_product_data builds: price through float(), quantity
\* and warranty through int(), the other fields as typed
ElectronicsData(id, price, qty) ==
    [product_id |-> id, name |-> JStr(<<"T", "V">>), price |-> JFloat(price),
     quantity_in_stock |-> JInt(qty), warranty_years |-> JInt(2),
     brand |-> JStr(<<"A", "c", "m", "e">>)]

GroceryData(id, price, qty, expiry) ==
    [product_id |-> id, name |-> JStr(<<"M", "i", "l", "k">>), price |-> JFloat(price),
     quantity_in_stock |-> JInt(qty), expiry_date |-> JStr(expiry)]

ClothingData(id, price, qty) ==
    [product_id |-> id, name |-> JStr(<<"H", "a", "t">>), price |-> JFloat(price),
     quantity_in_stock |-> JInt(qty), size |-> JStr(<<"M">>),
     material |-> JStr(<<"W", "o", "o", "l">>)]

\* the day before the program starts
DayBefore == Date(2024, 12, 30)

\* expiry dates typed at the prompt: the day before the start, the start
\* day, and a word
ExpiryInputs == {isoformat(DayBefore), isoformat(StartDay), <<"s", "o", "o", "n">>}

\* <<class, field dict>> pairs offered to the add handler; prices are in
\* halves (3 is 1.5, -1 is -0.5)
AddInputs ==
    {<<"Electronics", ElectronicsData(id, 3, 2)>> : id \in ProductIds}
    \cup {<<"Electronics", ElectronicsData(id, -1, -2)>> : id \in ProductIds}
    \cup {<<"Clothing", ClothingData(id, 3, 2)>> : id \in ProductIds}
    \cup {<<"Grocery", GroceryData(id, 3, 2, x)>> : id \in ProductIds, x \in ExpiryInputs}

SellInputs == -1..(MaxQty + 1)

RestockInputs == {-1, 1, 2}

\* prices assigned through the setter, in halves
SetPriceInputs == {-1, 3}

Init ==
    /\ inventory = <<>>
    /\ today = StartDay
    /\ file = AbsentFile
    /\ cli = "running"
    /\ last = Call("init", JNull, 0, "none", JNull, 0, 0, 0, <<>>, <<>>)

\* a menu handler ends: the call into the core ended with r, the handler's
\* except clause names handled
Handled(op, pid, arg, r, handled) ==
    /\ inventory' = r.products
    /\ cli' = AfterHandler(handled, r.err)
    /\ last' = CallOf(op, pid, arg, r)

\* InventoryCLI.add_product, the try block: c is what the constructor did
ConstructedAndAdded(products, c) ==
    IF c.err # "none" THEN InvResult(c.err, JNull, 0, 0, 0, products)
    ELSE add_product(products, c.val)

\* InventoryCLI.add_product, once the type and the fields have been read
AddProduct(cls, data) ==
    /\ cli = "running"
    /\ Handled("add", data.product_id, 0,
               ConstructedAndAdded(inventory, Construct(cls, data)), {"InventoryError"})
    /\ UNCHANGED <<today, file>>

\* InventoryCLI.remove_product
RemoveProduct(id) ==
    /\ cli = "running"
    /\ Handled("remove", id, 0, remove_product(inventory, id), {"ProductNotFoundError"})
    /\ UNCHANGED <<today, file>>

\* InventoryCLI.sell_product, once int() has read the quantity
SellProduct(id, quantity) ==
    /\ cli = "running"
    /\ Handled("sell", id, quantity, sell_product(inventory, id, quantity),
               {"ValueError", "ProductNotFoundError", "InsufficientStockError"})
    /\ UNCHANGED <<today, file>>

\* InventoryCLI.restock_product, once int() has read the quantity
RestockProduct(id, quantity) ==
    /\ cli = "running"
    /\ \A i \in 1..Len(inventory) :
          inventory[i].product_id = id => inventory[i].quantity_in_stock + quantity <= MaxQty
    /\ Handled("restock", id, quantity, restock_product(inventory, id, quantity),
               {"ValueError", "ProductNotFoundError"})
    /\ UNCHANGED <<today, file>>

\* a caller of the core assigning product.price on the handle get_product
\* returns, and reporting the failure
AssignPrice(id, new_price) ==
    /\ cli = "running"
    /\ Handled("set_price", id, new_price, assign_price(inventory, id, new_price),
               {"Exception"})
    /\ UNCHANGED <<today, file>>

\* InventoryCLI.remove_expired, with r what remove_expired_products did
Swept(r) ==
    /\ inventory' = r.kept
    /\ last' = Call("sweep", JNull, 0, "none", JNull, 0, 0, 0, r.expired_ids, <<>>)

RemoveExpired ==
    /\ cli = "running"
    /\ Swept(remove_expired_products(inventory, today))
    /\ UNCHANGED <<today, file, cli>>

Next ==
    \/ \E in \in AddInputs : AddProduct(in[1], in[2])
    \/ \E id \in ProductIds : RemoveProduct(id)
    \/ \E id \in ProductIds, n \in SellInputs : SellProduct(id, n)
    \/ \E id \in ProductIds, n \in RestockInputs : RestockProduct(id, n)
    \/ \E id \in ProductIds, x \in SetPriceInputs : AssignPrice(id, x)
    \/ RemoveExpired

Spec == Init /\ [][Next]_vars

----------------------------------------------------------------------------
(* The expiry sweep while the calendar advances                            *)

\* midnight passes: datetime.now().date() moves to the next day
Tick ==
    /\ cli = "running"
    /\ DateAfter(DayAfter(StartDay, MaxTicks), today)
    /\ today' = NextDay(today)
    /\ UNCHANGED <<inventory, file, cli, last>>

\* expiry dates around the days the clock shows
ClockExpiryInputs == {isoformat(DayAfter(DayBefore, k)) : k \in 0..(MaxTicks + 1)}

ClockAddInputs ==
    {<<"Electronics", ElectronicsData(id, 3, 2)>> : id \in ProductIds}
    \cup {<<"Clothing", ClothingData(id, 3, 2)>> : id \in ProductIds}
    \cup {<<"Grocery", GroceryData(id, 3, 2, x)>> : id \in ProductIds, x \in ClockExpiryInputs}

NextClock ==
    \/ \E in \in ClockAddInputs : AddProduct(in[1], in[2])
    \/ \E id \in ProductIds : RemoveProduct(id)
    \/ RemoveExpired
    \/ Tick

SpecClock == Init /\ [][NextClock]_vars


----------------------------------------------------------------------------
(* Persistence through the menu: save, load, and files prepared outside    *)
(* the program                                                             *)

JS(chars) == [t |-> "string", s |-> chars, n |-> 0]

JI(i) == [t |-> "integer", s |-> <<>>, n |-> i]

JR(halves) == [t |-> "real", s |-> <<>>, n |-> halves]

JN == [t |-> "null", s |-> <<>>, n |-> 0]

JDict(d) == [t |-> "dict", d |-> d]

FurnitureName == <<"F", "u", "r", "n", "i", "t", "u", "r", "e">>

\* {"product_id": "P1", "name": "Milk", "price": 1.5, "quantity_in_stock": 2,
\*  "type": "Grocery", "expiry_date": "2024-12-31"}
EntryGrocery ==
    JDict([product_id |-> JS(<<"P", "1">>), name |-> JS(<<"M", "i", "l", "k">>),
           price |-> JR(3), quantity_in_stock |-> JI(2), type |-> JS(GroceryName),
           expiry_date |-> JS(<<"2", "0", "2", "4", "-", "1", "2", "-", "3", "1">>)])

\* {"product_id": "P2", "name": "Hat", "price": -1, "quantity_in_stock": "-2",
\*  "type": "Clothing", "size": "M", "material": null}
EntryCoerced ==
    JDict([product_id |-> JS(<<"P", "2">>), name |-> JS(<<"H", "a", "t">>),
           price |-> JI(-1), quantity_in_stock |-> JS(<<"-", "2">>),
           type |-> JS(ClothingName), size |-> JS(<<"M">>), material |-> JN])

\* {"product_id": "P1", "name": "TV", "price": 3.5, "quantity_in_stock": 2.5,
\*  "type": "Electronics", "warranty_years": 1, "brand": "Acme"}
EntryFractional ==
    JDict([product_id |-> JS(<<"P", "1">>), name |-> JS(<<"T", "V">>),
           price |-> JR(7), quantity_in_stock |-> JR(5), type |-> JS(ElectronicsName),
           warranty_years |-> JI(1), brand |-> JS(<<"A", "c", "m", "e">>)])

\* a sofa of type "Furniture"
EntryFurniture ==
    JDict([product_id |-> JS(<<"P", "2">>), name |-> JS(<<"S", "o", "f", "a">>),
           price |-> JR(3), quantity_in_stock |-> JI(2), type |-> JS(FurnitureName)])

\* a clothing entry without the key type
EntryNoType ==
    JDict([product_id |-> JS(<<"P", "2">>), name |-> JS(<<"H", "a", "t">>),
           price |-> JR(3), quantity_in_stock |-> JI(2), size |-> JS(<<"M">>),
           material |-> JS(<<"W", "o", "o", "l">>)])

\* an electronics entry without the key brand
EntryMissingField ==
    JDict([product_id |-> JS(<<"P", "2">>), name |-> JS(<<"T", "V">>),
           price |-> JR(3), quantity_in_stock |-> JI(2), type |-> JS(ElectronicsName),
           warranty_years |-> JI(1)])

\* a grocery entry whose expiry date is the word soon
EntryBadDate ==
    JDict([product_id |-> JS(<<"P", "2">>), name |-> JS(<<"M", "i", "l", "k">>),
           price |-> JR(3), quantity_in_stock |-> JI(2), type |-> JS(GroceryName),
           expiry_date |-> JS(<<"s", "o", "o", "n">>)])

\* a clothing entry whose quantity is null
EntryNullQuantity ==
    JDict([product_id |-> JS(<<"P", "2">>), name |-> JS(<<"H", "a", "t">>),
           price |-> JR(3), quantity_in_stock |-> JN, type |-> JS(ClothingName),
           size |-> JS(<<"M">>), material |-> JS(<<"W", "o", "o", "l">>)])

\* a list element that is a string
EntryScalar == JS(<<"x">>)

\* the products lists of the files prepared outside the program
ExternalLists ==
    { <<>>,
      <<EntryGrocery>>, <<EntryCoerced>>, <<EntryFractional>>,
      <<EntryGrocery, EntryCoerced>>, <<EntryCoerced, EntryFractional>>,
      <<EntryGrocery, EntryGrocery>>, <<EntryGrocery, EntryFractional>>,
      <<EntryFurniture>>, <<EntryGrocery, EntryFurniture>>,
      <<EntryNoType>>, <<EntryMissingField>>, <<EntryGrocery, EntryBadDate>>,
      <<EntryNullQuantity>>, <<EntryScalar>>, <<EntryCoerced, EntryScalar>> }

\* the files the user may put in place of the saved one
ExternalFiles ==
    {AbsentFile, TextFile, JsonFile("other", FALSE, <<>>), JsonFile("dict", FALSE, <<>>)}
    \cup {JsonFile("dict", TRUE, list) : list \in ExternalLists}

\* products added through the menu before saving
FileAddInputs ==
    {<<"Electronics", ElectronicsData(id, 3, 2)>> : id \in ProductIds}
    \cup {<<"Clothing", ClothingData(id, 3, 2)>> : id \in ProductIds}
    \cup {<<"Grocery", GroceryData(id, 3, 2, isoformat(StartDay))>> : id \in ProductIds}

\* a load that fills the store it is called on instead of a fresh one
LoadedInventoryInPlace(current, r) == current \o r.products

\* InventoryCLI.load_inventory: the store held after load_from_file ended with r
LoadedInventory(current, r) == IF r.err = "none" THEN r.products ELSE current

\* InventoryCLI.save_inventory, the file is written
SaveInventory ==
    /\ cli = "running"
    /\ file' = save_to_file(inventory)
    /\ last' = Call("save", JNull, 0, "none", JNull, 0, 0, 0, <<>>, <<>>)
    /\ UNCHANGED <<inventory, today, cli>>

\* InventoryCLI.save_inventory, open() fails and the handler reports it
SaveFails ==
    /\ cli = "running"
    /\ cli' = AfterHandler({"Exception"}, "OSError")
    /\ last' = Call("save", JNull, 0, "OSError", JNull, 0, 0, 0, <<>>, <<>>)
    /\ UNCHANGED <<inventory, today, file>>

\* InventoryCLI.load_inventory, with r what load_from_file did
Loaded(r) ==
    /\ inventory' = LoadedInventory(inventory, r)
    /\ cli' = AfterHandler({"InvalidProductDataError"}, r.err)
    /\ last' = Call("load", JNull, 0, r.err, JNull, 0, 0, 0, <<>>, r.msg)

LoadInventory ==
    /\ cli = "running"
    /\ Loaded(load_from_file(file))
    /\ UNCHANGED <<today, file>>

\* the user replaces the file between two menu choices
EditFile(f) ==
    /\ cli = "running"
    /\ file' = f
    /\ UNCHANGED <<inventory, today, cli, last>>

NextFile ==
    \/ \E in \in FileAddInputs : AddProduct(in[1], in[2])
    \/ SaveInventory
    \/ SaveFails
    \/ LoadInventory
    \/ \E f \in ExternalFiles : EditFile(f)

SpecFile == Init /\ [][NextFile]_vars

----------------------------------------------------------------------------
(* Properties of the stock and price rules, checked under Spec            *)

Present(id) == id \in Keys(inventory)

Stored(products, id) == products[IndexOf(products, id)]

\* the products stored under the ids other than id are the same, at the same places
OthersUnchanged(id) ==
    /\ Len(inventory') = Len(inventory)
    /\ \A i \in 1..Len(inventory) :
          inventory[i].product_id # id => inventory'[i] = inventory[i]

\* the product stored under id kept every attribute but its stock
OnlyStockChanged(id) ==
    /\ Stored(inventory', id).product_id = id
    /\ [Stored(inventory', id) EXCEPT !.quantity_in_stock = 0]
          = [Stored(inventory, id) EXCEPT !.quantity_in_stock = 0]

\* C1: in every reachable state every stored product has quantity_in_stock >= 0
C1_StockNeverNegative ==
    \A i \in 1..Len(inventory) : inventory[i].quantity_in_stock >= 0

\* C2: in every reachable state every stored product has price >= 0
C2_PriceNeverNegative ==
    \A i \in 1..Len(inventory) : inventory[i].price >= 0

\* C3: selling n of a present product with 0 <= n <= stock succeeds, leaves
\* exactly stock - n, returns price * n at the price held when called, and
\* changes nothing else in the inventory
C3_SellDecrementsAndReturnsTotal ==
    [][\A id \in ProductIds, n \in SellInputs :
          (last'.op = "sell" /\ last'.arg = n /\ SellProduct(id, n) /\ Present(id) /\ 0 <= n
              /\ n <= Stored(inventory, id).quantity_in_stock)
          => /\ last'.err = "none"
             /\ Stored(inventory', id).quantity_in_stock
                   = Stored(inventory, id).quantity_in_stock - n
             /\ last'.ret = Stored(inventory, id).price * n
             /\ OnlyStockChanged(id)
             /\ OthersUnchanged(id)]_vars

\* a sale of a positive quantity at a positive price has succeeded while
\* another product is stored
C3_Witness ==
    /\ last.op = "sell" /\ last.err = "none" /\ last.arg > 0 /\ last.ret > 0
    /\ Len(inventory) = 2
    /\ \E i \in 1..2 : inventory[i].product_id = last.pid /\ inventory[i].quantity_in_stock > 0

\* C4: sell(n) with n above the stock s fails with InsufficientStock(id, n, s)
\* and changes nothing; sell(q) of the whole stock q succeeds and leaves 0
C4_OversellFailsAndSellAllSucceeds ==
    [][\A id \in ProductIds, n \in SellInputs :
          (last'.op = "sell" /\ last'.arg = n /\ SellProduct(id, n) /\ Present(id))
          => /\ n > Stored(inventory, id).quantity_in_stock
                => /\ last'.err = "InsufficientStockError"
                   /\ last'.e_pid = id /\ last'.e_req = n
                   /\ last'.e_avail = Stored(inventory, id).quantity_in_stock
                   /\ inventory' = inventory
             /\ n = Stored(inventory, id).quantity_in_stock
                => /\ last'.err = "none"
                   /\ Stored(inventory', id).quantity_in_stock = 0]_vars

\* C5: a negative quantity, amount or price is refused with ValueError and
\* changes nothing; for sell the sign is checked before the stock
C5_NegativeArgumentsRefused ==
    [][/\ \A id \in ProductIds, n \in SellInputs :
             (last'.op = "sell" /\ SellProduct(id, n) /\ Present(id) /\ n < 0)
             => last'.err = "ValueError" /\ inventory' = inventory
       /\ \A id \in ProductIds, a \in RestockInputs :
             (last'.op = "restock" /\ RestockProduct(id, a) /\ Present(id) /\ a < 0)
             => last'.err = "ValueError" /\ inventory' = inventory
       /\ \A id \in ProductIds, x \in SetPriceInputs :
             (last'.op = "set_price" /\ AssignPrice(id, x) /\ Present(id) /\ x < 0)
             => last'.err = "ValueError" /\ inventory' = inventory]_vars

\* a negative sale was refused for a product whose stock is below the sale
C5_Witness ==
    /\ last.op = "sell" /\ last.arg < 0 /\ last.err = "ValueError"
    /\ \E i \in 1..Len(inventory) :
          inventory[i].product_id = last.pid /\ inventory[i].quantity_in_stock < last.arg

\* no id is stored twice
UniqueKeys(products) ==
    \A i, j \in 1..Len(products) : products[i].product_id = products[j].product_id => i = j

\* C6: adding a product whose id is stored fails with DuplicateProduct(id) and
\* changes nothing; otherwise it inserts that product, last, and changes
\* nothing else; and after any operation no id is stored twice
C6_AddRejectsDuplicates ==
    [][/\ UniqueKeys(inventory')
       /\ \A in \in AddInputs :
             (last'.op = "add" /\ last'.pid = in[2].product_id /\ AddProduct(in[1], in[2])
                 /\ Construct(in[1], in[2]).err = "none")
             => IF Present(in[2].product_id)
                THEN /\ last'.err = "DuplicateProductError"
                     /\ last'.e_pid = in[2].product_id
                     /\ inventory' = inventory
                ELSE /\ last'.err = "none"
                     /\ inventory' = Append(inventory, Construct(in[1], in[2]).val)]_vars

\* an add was refused as a duplicate
C6_Witness ==
    last.op = "add" /\ last.err = "DuplicateProductError" /\ last.e_pid = last.pid
        /\ Len(inventory) = 2

\* a day count that grows with the calendar
DayNumber(d) == (d.year * 12 + d.month) * 31 + d.day

ExpiredToday(p) == p.type = "Grocery" /\ DayNumber(today) > DayNumber(p.expiry_date)

KeptToday(p) == ~ExpiredToday(p)

\* C7: the sweep removes exactly the groceries whose expiry date is strictly
\* before today, keeps every other product unchanged and in order, and
\* returns the removed ids once each in insertion order
C7_SweepRemovesExactlyExpired ==
    [][(last'.op = "sweep" /\ RemoveExpired)
          => /\ inventory' = SelectSeq(inventory, KeptToday)
             /\ last'.removed
                   = [i \in 1..Len(SelectSeq(inventory, ExpiredToday))
                         |-> SelectSeq(inventory, ExpiredToday)[i].product_id]]_vars

\* a sweep removed one grocery and kept a grocery that expires today
C7_Witness ==
    /\ last.op = "sweep" /\ Len(last.removed) = 1
    /\ \E i \in 1..Len(inventory) :
          inventory[i].type = "Grocery" /\ inventory[i].expiry_date = today

----------------------------------------------------------------------------
(* Properties of save and load, checked under SpecFile                     *)

\* C8: loading the file that save writes for the current inventory succeeds
\* and returns the same products, in the same order, with the same variant
\* and the same value in every field
C8_SaveLoadRoundTrip ==
    /\ load_from_file(save_to_file(inventory)).err = "none"
    /\ load_from_file(save_to_file(inventory)).products = inventory

\* a saved inventory holding a grocery and another variant has been loaded back
C8_Witness ==
    /\ last.op = "load" /\ last.err = "none"
    /\ Len(inventory) = 2 /\ file = save_to_file(inventory)
    /\ \E i, j \in 1..2 : inventory[i].type = "Grocery" /\ inventory[j].type # "Grocery"

KnownTags == {JS(ElectronicsName), JS(GroceryName), JS(ClothingName)}

\* the keys an entry of each type must have, type apart
FieldsOf(tag) ==
    {"product_id", "name", "price", "quantity_in_stock"}
    \cup (IF tag = JS(ElectronicsName) THEN {"warranty_years", "brand"}
          ELSE IF tag = JS(GroceryName) THEN {"expiry_date"}
          ELSE {"size", "material"})

\* a list element no product can be built from: not an object, no or an
\* unknown type tag, missing or unexpected keys, or values a constructor refuses
EntryBroken(e) ==
    \/ e.t # "dict"
    \/ "type" \notin DOMAIN e.d
    \/ e.d.type \notin KnownTags
    \/ DOMAIN e.d \ {"type"} # FieldsOf(e.d.type)
    \/ e \in {EntryBadDate, EntryNullQuantity}

\* a file load_from_file cannot build an inventory from
FileBroken(f) ==
    \/ f.kind # "json"
    \/ f.top # "dict"
    \/ \E i \in 1..Len(f.products) : EntryBroken(f.products[i])
    \/ \E i, j \in 1..Len(f.products) :
          /\ i < j /\ ~EntryBroken(f.products[i]) /\ ~EntryBroken(f.products[j])
          /\ f.products[i].d.product_id = f.products[j].d.product_id

\* C9: a load either returns an inventory or fails with InvalidProductData,
\* never another error: a file that is unreadable, not JSON, not an object,
\* or holds a broken or duplicate entry fails with InvalidProductData (a
\* file that is not JSON with the message "Invalid JSON file"), any other
\* file loads
C9_LoadFailsOnlyWithInvalidProductData ==
    [][(last'.op = "load" /\ LoadInventory)
          => /\ last'.err \in {"none", "InvalidProductDataError"}
             /\ cli' = "running"
             /\ FileBroken(file) <=> last'.err = "InvalidProductDataError"
             /\ file.kind = "text" => last'.msg = <<"Invalid JSON file">>]_vars

\* a load failed on the second entry of a file that repeats an id
C9_Witness ==
    /\ last.op = "load" /\ last.err = "InvalidProductDataError"
    /\ last.msg = <<"Error loading inventory", "Error creating product", "DuplicateProductError">>
    /\ cli = "running"

\* C10: a failed load leaves the caller's inventory as it was, with nothing
\* of the file in it; a successful load leaves exactly the file's entries,
\* in the file's order, and nothing of the previous inventory
C10_LoadReplacesOrLeavesUntouched ==
    [][(last'.op = "load" /\ LoadInventory)
          => IF last'.err # "none" THEN inventory' = inventory
             ELSE /\ Len(inventory') = Len(file.products)
                  /\ \A i \in 1..Len(file.products) :
                        inventory'[i].product_id = JsonDecode(file.products[i].d.product_id)]_vars

\* a load failed on the second entry of a file whose first entry is P1 while
\* the inventory held P2 only, and still does
C10_Witness ==
    /\ last.op = "load" /\ last.err # "none"
    /\ file = JsonFile("dict", TRUE, <<EntryGrocery, EntryBadDate>>)
    /\ Len(inventory) = 1 /\ inventory[1].product_id = P2

----------------------------------------------------------------------------
(* Properties of the lookups and of the key set, checked under Spec        *)

\* the ids stored, in insertion order
IdsOf(products) == [i \in 1..Len(products) |-> products[i].product_id]

\* products without the one stored under id, the others as they were
Without(products, id) == SelectSeq(products, LAMBDA p : p.product_id # id)

\* C11: remove_product, get_product, sell_product and restock_product on an
\* id that is not stored fail with ProductNotFound(id) and change nothing;
\* remove_product on a stored id deletes that key and no other
C11_AbsentIdIsProductNotFound ==
    [][/\ \A id \in ProductIds :
             (last'.op = "remove" /\ last'.pid = id /\ RemoveProduct(id))
             => IF Present(id)
                THEN /\ last'.err = "none"
                     /\ inventory' = Without(inventory, id)
                     /\ Keys(inventory') = Keys(inventory) \ {id}
                ELSE /\ last'.err = "ProductNotFoundError" /\ last'.e_pid = id
                     /\ inventory' = inventory
       /\ \A id \in ProductIds, n \in SellInputs :
             (last'.op = "sell" /\ last'.pid = id /\ last'.arg = n /\ SellProduct(id, n)
                 /\ ~Present(id))
             => /\ last'.err = "ProductNotFoundError" /\ last'.e_pid = id
                /\ inventory' = inventory
       /\ \A id \in ProductIds, n \in RestockInputs :
             (last'.op = "restock" /\ last'.pid = id /\ last'.arg = n /\ RestockProduct(id, n)
                 /\ ~Present(id))
             => /\ last'.err = "ProductNotFoundError" /\ last'.e_pid = id
                /\ inventory' = inventory
       /\ \A id \in ProductIds :
             IF id \in Keys(inventory')
             THEN get_product(inventory', id).err = "none"
             ELSE get_product(inventory', id) = [err |-> "ProductNotFoundError", e_pid |-> id]]_vars

\* removing an id that is not stored was refused while another product is stored
C11_Witness ==
    /\ last.op = "remove" /\ last.err = "ProductNotFoundError" /\ last.e_pid = last.pid
    /\ Len(inventory) = 1 /\ inventory[1].product_id # last.pid

\* C12: sell_product and restock_product, failing or not, leave the ids
\* stored as they are, so a product sold down to 0 is still stored and
\* get_product returns it; a step that loses an id is a remove or a sweep
C12_SellingNeverRemoves ==
    [][/\ last'.op \in {"sell", "restock"}
             => /\ IdsOf(inventory') = IdsOf(inventory)
                /\ \A id \in Keys(inventory) : get_product(inventory', id).err = "none"
       /\ Keys(inventory) \ Keys(inventory') # {} => last'.op \in {"remove", "sweep"}]_vars

\* the whole stock of a product was sold and the product is still stored, with stock 0
C12_Witness ==
    /\ last.op = "sell" /\ last.err = "none" /\ last.arg > 0
    /\ \E i \in 1..Len(inventory) :
          inventory[i].product_id = last.pid /\ inventory[i].quantity_in_stock = 0

\* C14: restock(b) then restock(a), for a >= 0 and b >= 0, leaves what a
\* single restock(a + b) leaves: the starting stock plus a + b
C14_RestockAdds ==
    [][\A id \in ProductIds, b \in RestockInputs :
          (last'.op = "restock" /\ last'.pid = id /\ last'.arg = b /\ RestockProduct(id, b)
              /\ Present(id) /\ b >= 0)
          => \A a \in 0..MaxQty :
                /\ restock_product(inventory', id, a).err = "none"
                /\ restock_product(inventory', id, a).products
                      = restock_product(inventory, id, a + b).products
                /\ Stored(restock_product(inventory', id, a).products, id).quantity_in_stock
                      = Stored(inventory, id).quantity_in_stock + a + b]_vars

\* a product restocked from a positive stock holds more than the amount added
C14_Witness ==
    /\ last.op = "restock" /\ last.err = "none" /\ last.arg > 0
    /\ \E i \in 1..Len(inventory) :
          inventory[i].product_id = last.pid /\ inventory[i].quantity_in_stock > last.arg

----------------------------------------------------------------------------
(* The stock operations with the menu's total value                        *)

\* InventoryCLI.show_total_value
ShowTotalValue ==
    /\ cli = "running"
    /\ last' = Call("total", JNull, 0, "none", JNull, 0, 0,
                    total_inventory_value(inventory), <<>>, <<>>)
    /\ UNCHANGED <<inventory, today, file, cli>>

NextValue ==
    \/ Next
    \/ ShowTotalValue

SpecValue == Init /\ [][NextValue]_vars

\* price * quantity_in_stock added up over the first k products
RECURSIVE ValueOfFirst(_, _)
ValueOfFirst(products, k) ==
    IF k = 0 THEN 0
    ELSE ValueOfFirst(products, k - 1) + products[k].price * products[k].quantity_in_stock

\* C13: in every reachable state each product's get_total_value() is its
\* price * quantity_in_stock, total_inventory_value() is the sum of these
\* over the products stored (0 when none is), and the total the menu showed
\* last is that sum
C13_TotalValueIsSumOfProducts ==
    /\ \A i \in 1..Len(inventory) :
          get_total_value(inventory[i]) = inventory[i].price * inventory[i].quantity_in_stock
    /\ total_inventory_value(inventory) = ValueOfFirst(inventory, Len(inventory))
    /\ Len(inventory) = 0 => total_inventory_value(inventory) = 0
    /\ last.op = "total" => last.ret = ValueOfFirst(inventory, Len(inventory))

\* the total of two products with different stocks was shown
C13_Witness ==
    /\ last.op = "total" /\ last.ret > 0 /\ Len(inventory) = 2
    /\ inventory[1].quantity_in_stock > inventory[2].quantity_in_stock
    /\ inventory[2].quantity_in_stock > 0

----------------------------------------------------------------------------
(* Searching and listing                                                   *)

UpperCase ==
    <<"A", "B", "C", "D", "E", "F", "G", "H", "I", "J", "K", "L", "M",
      "N", "O", "P", "Q", "R", "S", "T", "U", "V", "W", "X", "Y", "Z">>

LowerCase ==
    <<"a", "b", "c", "d", "e", "f", "g", "h", "i", "j", "k", "l", "m",
      "n", "o", "p", "q", "r", "s", "t", "u", "v", "w", "x", "y", "z">>

\* str.lower on one character
LowerChar(c) ==
    IF \E i \in 1..Len(UpperCase) : UpperCase[i] = c
    THEN LowerCase[CHOOSE i \in 1..Len(UpperCase) : UpperCase[i] = c]
    ELSE c

\* str.lower
lower(chars) == [i \in 1..Len(chars) |-> LowerChar(chars[i])]

\* the str operator in: sub occurs in chars
In(sub, chars) ==
    \E k \in 0..(Len(chars) - Len(sub)) : SubSeq(chars, k + 1, k + Len(sub)) = sub

\* the test of the comprehension of search_by_name, name already lowered;
\* product.name is a str here
NameMatches(name, product) == In(name, lower(product.name.s))

\* Inventory.search_by_name: name is a str; product.name.lower() raises
\* AttributeError on the first product whose name is not a str
search_by_name(products, name) ==
    IF \E i \in 1..Len(products) : products[i].name.t # "str"
    THEN [err |-> "AttributeError", found |-> <<>>]
    ELSE [err |-> "none",
          found |-> SelectSeq(products, LAMBDA product : NameMatches(lower(name), product))]

\* Inventory.search_by_type
search_by_type(products, product_type) ==
    IF product_type \notin DOMAIN PRODUCT_TYPES
    THEN [err |-> "InvalidProductTypeError", found |-> <<>>]
    ELSE [err |-> "none",
          found |-> SelectSeq(products,
                              LAMBDA product : product.type = PRODUCT_TYPES[product_type])]

\* Inventory.list_all_products
list_all_products(products) == [err |-> "none", found |-> products]

\* the record of a call that returned a list of products: query is the text
\* searched for, found the list
ListCall(op, query, r) ==
    Call(op, JNull, 0, r.err, JNull, 0, 0, 0, <<>>, <<>>)
        @@ [query |-> query, found |-> r.found]

\* a handler that shows a list ends: the store is not touched
Shown(op, query, r, handled) ==
    /\ cli' = AfterHandler(handled, r.err)
    /\ last' = ListCall(op, query, r)

\* InventoryCLI.search_products, choice 1: no try around search_by_name
SearchByName(name) ==
    /\ cli = "running"
    /\ Shown("search", name, search_by_name(inventory, name), {})
    /\ UNCHANGED <<inventory, today, file>>

\* InventoryCLI.search_products, choice 2, with the type get_product_type returned
SearchByType(product_type) ==
    /\ cli = "running"
    /\ Shown("search_type", product_type.s, search_by_type(inventory, product_type),
             {"InvalidProductTypeError"})
    /\ UNCHANGED <<inventory, today, file>>

\* InventoryCLI.list_products
ListProducts ==
    /\ cli = "running"
    /\ Shown("list", <<>>, list_all_products(inventory), {})
    /\ UNCHANGED <<inventory, today, file>>

\* the texts typed at the search prompt
SearchInputs == {<<>>, <<"t">>, <<"T">>, <<"A", "T">>, <<"m", "i">>, <<"x">>}

\* {"product_id": "P2", "name": 5, "price": 1.5, "quantity_in_stock": 2,
\*  "type": "Clothing", "size": "M", "material": "Wool"}
EntryNumericName ==
    JDict([product_id |-> JS(<<"P", "2">>), name |-> JI(5),
           price |-> JR(3), quantity_in_stock |-> JI(2), type |-> JS(ClothingName),
           size |-> JS(<<"M">>), material |-> JS(<<"W", "o", "o", "l">>)])

\* files put in place of the saved one before a search
SearchFiles ==
    {TextFile,
     JsonFile("dict", TRUE, <<EntryGrocery>>),
     JsonFile("dict", TRUE, <<EntryGrocery, EntryCoerced>>),
     JsonFile("dict", TRUE, <<EntryGrocery, EntryNumericName>>)}

NextSearch ==
    \/ \E in \in FileAddInputs : AddProduct(in[1], in[2])
    \/ \E id \in ProductIds : RemoveProduct(id)
    \/ SaveInventory
    \/ LoadInventory
    \/ \E f \in SearchFiles : EditFile(f)
    \/ \E x \in SearchInputs : SearchByName(x)

SpecSearch == Init /\ [][NextSearch]_vars

\* two characters are the same letter, whatever the case
SameLetter(a, b) ==
    \/ a = b
    \/ \E i \in 1..Len(UpperCase) : {a, b} = {UpperCase[i], LowerCase[i]}

\* the name of product p has the letters of x at some place, whatever the case
NameContains(p, x) ==
    \E k \in 0..(Len(p.name.s) - Len(x)) :
        \A j \in 1..Len(x) : SameLetter(p.name.s[k + j], x[j])

\* C15: search_by_name(x) returns the stored products whose name contains x,
\* case ignored, in insertion order, and leaves the store as it is; for the
\* empty text it returns every stored product
C15_SearchByNameFindsMatches ==
    [][\A x \in SearchInputs :
          (last'.op = "search" /\ last'.query = x /\ SearchByName(x))
          => /\ last'.err = "none"
             /\ last'.found = SelectSeq(inventory, LAMBDA p : NameContains(p, x))
             /\ x = <<>> => last'.found = inventory
             /\ inventory' = inventory]_vars

----------------------------------------------------------------------------
(* The whole menu: every choice of InventoryCLI.run                        *)

\* choice 0: running becomes False and run() returns
Exit ==
    /\ cli = "running"
    /\ cli' = "exited"
    /\ UNCHANGED <<inventory, today, file, last>>

\* the id typed at the prompts of the menu
MenuIds == {P1}

\* products typed at the add prompts: a television, milk that expired
\* yesterday, milk whose expiry date is the word soon
MenuAddInputs ==
    {<<"Electronics", ElectronicsData(id, 3, 2)>> : id \in MenuIds}
    \cup {<<"Grocery", GroceryData(id, 3, 2, isoformat(DayBefore))>> : id \in MenuIds}
    \cup {<<"Grocery", GroceryData(id, 3, 2, <<"s", "o", "o", "n">>)>> : id \in MenuIds}

\* the texts typed at the search prompt of the menu
MenuSearchInputs == {<<>>, <<"t">>}

\* the types get_product_type returns
MenuTypes == {JStr(ElectronicsName), JStr(GroceryName), JStr(ClothingName)}

\* files put in place of the saved one
MenuFiles ==
    {TextFile,
     JsonFile("dict", TRUE, <<EntryGrocery, EntryCoerced>>),
     JsonFile("dict", TRUE, <<EntryGrocery, EntryBadDate>>),
     JsonFile("dict", TRUE, <<EntryGrocery, EntryNumericName>>)}

NextMenu ==
    \/ \E in \in MenuAddInputs : AddProduct(in[1], in[2])
    \/ \E id \in MenuIds : RemoveProduct(id)
    \/ \E x \in MenuSearchInputs : SearchByName(x)
    \/ \E t \in MenuTypes : SearchByType(t)
    \/ ListProducts
    \/ \E id \in MenuIds, n \in SellInputs : SellProduct(id, n)
    \/ \E id \in MenuIds, n \in RestockInputs : RestockProduct(id, n)
    \/ RemoveExpired
    \/ SaveInventory
    \/ SaveFails
    \/ LoadInventory
    \/ ShowTotalValue
    \/ Exit
    \/ \E f \in MenuFiles : EditFile(f)

SpecMenu == Init /\ [][NextMenu]_vars

\* C16: whatever is chosen and typed, a failure of the core is caught by the
\* menu handler: the loop is still running after every choice but 0, and a
\* choice that failed leaves the inventory as it was
C16_EveryFailureIsCaught ==
    [][cli = "running"
          => /\ cli' # "crashed"
             /\ last'.err # "none" => inventory' = inventory]_vars

====
